---------------------------- MODULE Spec2Model ----------------------------
(***************************************************************************)
(* Model of setup_shell_gpt.py: the pip-mirror selector with its           *)
(* process-wide cache, the SiliconFlow capability client, the model        *)
(* curator, and the session that main() drives over the persisted Config.  *)
(***************************************************************************)
EXTENDS Integers, Sequences, FiniteSets

(***************************************************************************)
(* Bounds of the model.                                                    *)
(***************************************************************************)
\* Real latencies a probe may measure are 1..MaxLatency (clock ticks).
MaxLatency == 2
\* Probing rounds one process may run.
MaxRounds == 2
\* Longest catalog drawn from the identifier pool.
MaxCatalog == 3
\* Inputs one prompt loop may reject before the model stops offering more.
MaxTries == 2

(***************************************************************************)
(* Mirror candidates (names are the ASCII renderings of the Chinese        *)
(* display names of the source).                                           *)
(***************************************************************************)
PIP_MIRRORS ==
    << <<"PyPI", "https://pypi.org/simple">>,
       <<"Tsinghua", "https://pypi.tuna.tsinghua.edu.cn/simple">>,
       <<"Aliyun", "https://mirrors.aliyun.com/pypi/simple">>,
       <<"Tencent", "https://mirrors.cloud.tencent.com/pypi/simple">>,
       <<"PKU", "https://mirrors.pku.edu.cn/pypi/web/simple">>,
       <<"USTC", "https://pypi.mirrors.ustc.edu.cn/simple">> >>

DEFAULT_PIP_MIRROR == <<"Tsinghua", "https://pypi.tuna.tsinghua.edu.cn/simple">>

\* Python's None.
None == << >>

\* float('inf'): the latency of an unreachable mirror.  Encoded as -1 and
\* ordered above every real latency by LatLess.
INF == -1

\* a < b on floats where INF stands for float('inf').
LatLess(a, b) == a # INF /\ (b = INF \/ a < b)

Candidates == {PIP_MIRRORS[i] : i \in DOMAIN PIP_MIRRORS}

VARIABLES
    cache,          \* _cached_fastest_mirror
    pc,             \* position of find_fastest_pip_mirror: "idle" | "probing"
    use_cache,      \* the use_cache argument of the current (or last) call
    pending,        \* submitted futures as_completed has not yielded yet
    results,        \* the local list `results`
    ret,            \* what the last finished call returned
    dispatched,     \* number of probes the current (or last) call submitted
    rounds,         \* probing rounds started so far in this process
    callerFlags,    \* use_cache values the callers of this run pass
    latencyRange    \* real latencies the network of this run can show

mirrorVars == <<cache, pc, use_cache, pending, results, ret,
                dispatched, rounds, callerFlags, latencyRange>>

VARIABLES
    outcome,        \* what requests.get(url, headers, timeout=10) yields
    done,           \* the operations applied so far
    raisedBy,       \* the operations that raised to their caller
    valid,          \* test_api_connection(api_key)
    valDiag,        \* the diagnostic that call printed
    all_models,     \* test_api_connection(api_key, return_models=True)
    catDiag,        \* the diagnostic that call printed
    available_models, \* filter_models(all_models)
    refiltered,     \* filter_models(available_models)
    default_model   \* select_default_model(available_models)

catalogVars == <<outcome, done, raisedBy, valid, valDiag, all_models, catDiag,
                 available_models, refiltered, default_model>>

VARIABLES
    args_auto,      \* args.auto (line 680)
    args_key,       \* args.key (line 679), empty when the flag is absent
    api_key,        \* the local api_key of main(), empty for None
    config_exists,  \* config_file.exists() for ~/.config/shell_gpt/.sgptrc
    config_file,    \* the characters of that file
    state,          \* the state of the session
    at,             \* the line of the source the session is at
    selected_model, \* the local selected_model of switch_model
    tries,          \* inputs the current prompt loop has rejected
    validated,      \* the keys test_api_connection(key) has returned True for
    msg,            \* the last message the session printed
    input_line,     \* the last line typed at a prompt of an operation
    exit_status     \* the status given to sys.exit, NotExited before that

sessionVars == <<args_auto, args_key, api_key, config_exists, config_file,
                 state, at, selected_model, tries, validated, msg,
                 input_line, exit_status>>

vars == <<mirrorVars, catalogVars, sessionVars>>

(***************************************************************************)
(* list.sort(key=lambda x: x[2]): a stable sort, ascending by latency.     *)
(***************************************************************************)
\* Insert x into the sorted list s after every element that is not greater.
RECURSIVE SortedInsertEnd(_, _)
SortedInsertEnd(s, x) ==
    IF s = << >> THEN <<x>>
    ELSE IF LatLess(x[3], Head(s)[3]) THEN <<x>> \o s
    ELSE <<Head(s)>> \o SortedInsertEnd(Tail(s), x)

\* Mutant: insert x before the elements with an equal key (not stable).
RECURSIVE SortedInsertFront(_, _)
SortedInsertFront(s, x) ==
    IF s = << >> THEN <<x>>
    ELSE IF ~LatLess(Head(s)[3], x[3]) THEN <<x>> \o s
    ELSE <<Head(s)>> \o SortedInsertFront(Tail(s), x)

SortedInsert(s, x) == SortedInsertEnd(s, x)

RECURSIVE SortFrom(_, _)
SortFrom(acc, s) ==
    IF s = << >> THEN acc ELSE SortFrom(SortedInsert(acc, Head(s)), Tail(s))

\* Mutant: the list is left in completion order.
NoSort(s) == s

sort_by_elapsed(s) == SortFrom(<< >>, s)

\* Lines 120-131: the first entry that is not INF, else the default mirror.
RECURSIVE first_available(_)
first_available(s) ==
    IF s = << >> THEN DEFAULT_PIP_MIRROR
    ELSE IF Head(s)[3] # INF THEN <<Head(s)[1], Head(s)[2]>>
    ELSE first_available(Tail(s))

\* Mutant: leave the loop at the first reachable result.
first_success(p) == \E i \in DOMAIN results : results[i][3] # INF

\* The for loop over as_completed(futures) ends, and the executor's with
\* block is left, when every submitted future has been yielded.
all_completed(p) == p = {}

(***************************************************************************)
(* find_fastest_pip_mirror                                                 *)
(***************************************************************************)
\* Mutant: the cache is never taken.
cache_ignored(uc) == FALSE

\* Line 81: use_cache and _cached_fastest_mirror is not None.
cache_usable(uc) == uc /\ cache # None

\* Mutant: the cached path answers with the default mirror.
default_result == DEFAULT_PIP_MIRROR

\* Line 84: return _cached_fastest_mirror.
cached_result == cache

\* Lines 81-84: the cache is set and may be used: return it.  The list
\* `results` is not created on this path; the variable keeps the last round's.
SelectCached(uc) ==
    /\ pc = "idle"
    /\ uc \in callerFlags
    /\ cache_usable(uc)
    /\ use_cache' = uc
    /\ ret' = cached_result
    /\ dispatched' = 0
    /\ UNCHANGED <<cache, pc, pending, results, rounds, callerFlags,
                   latencyRange, catalogVars, sessionVars>>

\* Lines 89-95: submit one probe per candidate.
SelectProbe(uc) ==
    /\ pc = "idle"
    /\ uc \in callerFlags
    /\ ~cache_usable(uc)
    /\ rounds < MaxRounds
    /\ use_cache' = uc
    /\ pc' = "probing"
    /\ pending' = Candidates
    /\ dispatched' = Cardinality(Candidates)
    /\ results' = << >>
    /\ rounds' = rounds + 1
    /\ UNCHANGED <<cache, ret, callerFlags, latencyRange, catalogVars,
                   sessionVars>>

\* Lines 44-64 and 97-99: the probe of m ends with a latency or INF and
\* as_completed yields it; its result is appended.
ProbeDone(m, elapsed) ==
    /\ pc = "probing"
    /\ m \in pending
    /\ pending' = pending \ {m}
    /\ results' = Append(results, <<m[1], m[2], elapsed>>)
    /\ UNCHANGED <<cache, pc, use_cache, ret, dispatched, rounds,
                   callerFlags, latencyRange, catalogVars, sessionVars>>

\* Lines 107-131: rank, select, store the cache, return.
RankAndReturn ==
    /\ pc = "probing"
    /\ all_completed(pending)
    /\ results' = sort_by_elapsed(results)
    /\ cache' = first_available(results')
    /\ ret' = cache'
    /\ pc' = "idle"
    /\ pending' = {}
    /\ UNCHANGED <<use_cache, dispatched, rounds, callerFlags, latencyRange,
                   catalogVars, sessionVars>>

(***************************************************************************)
(* Strings.  A Python str is modelled as the sequence of its characters.   *)
(***************************************************************************)
ToLower ==
    [A |-> "a", B |-> "b", C |-> "c", D |-> "d", E |-> "e", F |-> "f",
     G |-> "g", H |-> "h", I |-> "i", J |-> "j", K |-> "k", L |-> "l",
     M |-> "m", N |-> "n", O |-> "o", P |-> "p", Q |-> "q", R |-> "r",
     S |-> "s", T |-> "t", U |-> "u", V |-> "v", W |-> "w", X |-> "x",
     Y |-> "y", Z |-> "z"]

\* str.lower()
lower(str) ==
    [i \in 1..Len(str) |-> IF str[i] \in DOMAIN ToLower THEN ToLower[str[i]]
                           ELSE str[i]]

\* `sub in str`
Contains(sub, str) ==
    \E i \in 1..(Len(str) - Len(sub) + 1) :
        \A k \in 1..Len(sub) : str[i + k - 1] = sub[k]

\* The substrings filter_models looks for (lines 322-335).
\* "pro"
s_pro == <<"p","r","o">>
\* "plus"
s_plus == <<"p","l","u","s">>
\* "qwen"
s_qwen == <<"q","w","e","n">>
\* "2.5"
s_2_5 == <<"2",".","5">>
\* "qwen2"
s_qwen2 == <<"q","w","e","n","2">>
\* "deepseek"
s_deepseek == <<"d","e","e","p","s","e","e","k">>
\* "kimi"
s_kimi == <<"k","i","m","i">>
\* "minimax"
s_minimax == <<"m","i","n","i","m","a","x">>

\* Model identifiers a catalog is drawn from.
\* "Qwen2.5-7B"
Qwen25_7B == <<"Q","w","e","n","2",".","5","-","7","B">>
\* "DeepSeek-V3.1"
DeepSeekV31 == <<"D","e","e","p","S","e","e","k","-","V","3",".","1">>
\* "Kimi-K2-Instruct-Pro"
KimiK2Pro ==
    <<"K","i","m","i","-","K","2","-","I","n","s","t","r","u","c","t","-","P",
      "r","o">>
\* "moonshotai/Kimi-K2-Instruct"
MoonshotKimiK2 ==
    <<"m","o","o","n","s","h","o","t","a","i","/","K","i","m","i","-","K","2",
      "-","I","n","s","t","r","u","c","t">>
\* "Qwen3-8B"
Qwen3_8B == <<"Q","w","e","n","3","-","8","B">>
\* "MiniMax-M1"
MiniMaxM1 == <<"M","i","n","i","M","a","x","-","M","1">>
\* "deepseek-ai/DeepSeek-V3.1"
DeepSeekAiV31 ==
    <<"d","e","e","p","s","e","e","k","-","a","i","/","D","e","e","p","S","e",
      "e","k","-","V","3",".","1">>
\* "deepseek-ai/DeepSeek-R1"
DeepSeekAiR1 ==
    <<"d","e","e","p","s","e","e","k","-","a","i","/","D","e","e","p","S","e",
      "e","k","-","R","1">>
\* "deepseek-ai/DeepSeek-V2.5"
DeepSeekAiV25 ==
    <<"d","e","e","p","s","e","e","k","-","a","i","/","D","e","e","p","S","e",
      "e","k","-","V","2",".","5">>
\* "deepseek-ai/DeepSeek-R1-Distill-Qwen-7B"
DistillQwen ==
    <<"d","e","e","p","s","e","e","k","-","a","i","/","D","e","e","p","S","e",
      "e","k","-","R","1","-","D","i","s","t","i","l","l","-","Q","w","e","n",
      "-","7","B">>
\* "Qwen/Qwen2-7B-Instruct"
Qwen2_7B ==
    <<"Q","w","e","n","/","Q","w","e","n","2","-","7","B","-","I","n","s","t",
      "r","u","c","t">>
\* "qwen-plus"
QwenPlus == <<"q","w","e","n","-","p","l","u","s">>
\* "THUDM/glm-4-9b"
Glm4 == <<"T","H","U","D","M","/","g","l","m","-","4","-","9","b">>

IdPool ==
    {DeepSeekV31, MoonshotKimiK2, Qwen3_8B, MiniMaxM1, DeepSeekAiV31,
     DeepSeekAiR1, DeepSeekAiV25, DistillQwen, Qwen2_7B, QwenPlus, Glm4}

ExampleCatalog ==
    <<Qwen25_7B, DeepSeekV31, KimiK2Pro, MoonshotKimiK2, Qwen3_8B, MiniMaxM1>>

Catalogs ==
    UNION {[1..n -> IdPool] : n \in 0..MaxCatalog} \cup {ExampleCatalog}

(***************************************************************************)
(* test_api_connection                                                     *)
(***************************************************************************)
\* What the single requests.get can yield: an exception of the requests
\* library, or a response with a status and a body.  A body is the JSON
\* object {"data": [{"id": ...}, ...]} (shape "ok") or one of four other
\* shapes.
NoBody == [shape |-> "not_json", ids |-> << >>]

RequestExceptions ==
    {"ConnectionError", "ConnectTimeout", "ReadTimeout", "TooManyRedirects"}

ErrorStatuses == {401, 403, 404, 429, 500}

PassingStatuses == {200, 204, 304}

OtherShapes == {"not_json", "not_object", "no_data", "item_without_id"}

Outcomes ==
    {[exc |-> e, status |-> 0, body |-> NoBody] : e \in RequestExceptions}
    \cup {[exc |-> "none", status |-> st, body |-> NoBody] : st \in ErrorStatuses}
    \cup {[exc |-> "none", status |-> st, body |-> [shape |-> sh, ids |-> << >>]] :
            st \in PassingStatuses, sh \in OtherShapes}
    \cup {[exc |-> "none", status |-> 200, body |-> [shape |-> "ok", ids |-> c]] :
            c \in Catalogs}

\* Mutant: only client errors raise.
raise_for_client_error(status) == 400 <= status /\ status < 500

\* Line 274, response.raise_for_status(): raises HTTPError for 4xx and 5xx.
raise_for_status(status) == 400 <= status /\ status < 600

\* The exception the try body (lines 273-279) ends with, "none" if it
\* returns.  The body is read only with return_models (lines 277-278).
Thrown(o, return_models) ==
    IF o.exc # "none" THEN o.exc
    ELSE IF raise_for_status(o.status) THEN "HTTPError"
    ELSE IF ~return_models THEN "none"
    ELSE IF o.body.shape = "not_json" THEN "JSONDecodeError"
    ELSE IF o.body.shape = "not_object" THEN "AttributeError"
    ELSE IF o.body.shape = "item_without_id" THEN "KeyError"
    ELSE "none"

\* Mutant: the handlers without the final `except Exception`.
except_clause_no_generic(exc) ==
    IF exc = "HTTPError" THEN "HTTPError"
    ELSE IF exc \in {"ConnectionError", "ConnectTimeout"} THEN "ConnectionError"
    ELSE IF exc = "ReadTimeout" THEN "Timeout"
    ELSE "uncaught"

\* The except clause (lines 280, 297, 302, 305) that catches exc, in order.
\* ConnectTimeout derives from both ConnectionError and Timeout and is caught
\* by the earlier clause.
except_clause(exc) ==
    IF exc = "HTTPError" THEN "HTTPError"
    ELSE IF exc \in {"ConnectionError", "ConnectTimeout"} THEN "ConnectionError"
    ELSE IF exc = "ReadTimeout" THEN "Timeout"
    ELSE "Exception"

\* Lines 281-295: the diagnostic printed for an HTTPError.
http_diag(status) ==
    IF status = 401 THEN "CredentialInvalid"
    ELSE IF status = 403 THEN "CredentialForbidden"
    ELSE IF status = 429 THEN "RateLimited"
    ELSE "RemoteError"

\* Lines 257-307.  The result: whether the call raised, the value returned
\* and the class of the diagnostic printed ("none" when nothing is printed).
test_api_connection(o, return_models) ==
    LET exc == Thrown(o, return_models)
        clause == except_clause(exc)
        failure == IF return_models THEN << >> ELSE FALSE
    IN  IF exc = "none"
        THEN [raised |-> FALSE,
              value |-> IF ~return_models THEN TRUE
                        ELSE IF o.body.shape = "ok" THEN o.body.ids
                        ELSE << >>,
              diag |-> "none"]
        ELSE IF clause = "HTTPError"
        THEN [raised |-> FALSE, value |-> failure, diag |-> http_diag(o.status)]
        ELSE IF clause = "ConnectionError"
        THEN [raised |-> FALSE, value |-> failure, diag |-> "Unreachable"]
        ELSE IF clause = "Timeout"
        THEN [raised |-> FALSE, value |-> failure, diag |-> "Timeout"]
        ELSE IF clause = "Exception"
        THEN [raised |-> FALSE, value |-> failure, diag |-> "Unknown"]
        ELSE [raised |-> TRUE, value |-> failure, diag |-> "none"]

(***************************************************************************)
(* filter_models and select_default_model                                  *)
(***************************************************************************)
\* Mutant: the "plus" test is missing.
skipped_without_plus(model_lower) ==
    \/ Contains(s_pro, model_lower)
    \/ /\ Contains(s_qwen, model_lower)
       /\ Contains(s_2_5, model_lower) \/ Contains(s_qwen2, model_lower)

\* Lines 322-327: the two `continue` tests.
skipped(model_lower) ==
    \/ Contains(s_pro, model_lower) \/ Contains(s_plus, model_lower)
    \/ /\ Contains(s_qwen, model_lower)
       /\ Contains(s_2_5, model_lower) \/ Contains(s_qwen2, model_lower)

\* Mutant: a model is put at the front of its group.
add_to_group_front(group, model) == <<model>> \o group

\* list.append
add_to_group(group, model) == Append(group, model)

\* Lines 318-336: one pass of the loop body over the four groups.
filter_step(g, model) ==
    LET model_lower == lower(model)
    IN  IF skipped(model_lower) THEN g
        ELSE IF Contains(s_deepseek, model_lower)
        THEN [g EXCEPT !.deepseek = add_to_group(@, model)]
        ELSE IF Contains(s_kimi, model_lower)
        THEN [g EXCEPT !.kimi = add_to_group(@, model)]
        ELSE IF Contains(s_qwen, model_lower)
        THEN [g EXCEPT !.qwen = add_to_group(@, model)]
        ELSE IF Contains(s_minimax, model_lower)
        THEN [g EXCEPT !.minimax = add_to_group(@, model)]
        ELSE g

RECURSIVE filter_loop(_, _)
filter_loop(g, models) ==
    IF models = << >> THEN g
    ELSE filter_loop(filter_step(g, Head(models)), Tail(models))

\* Lines 310-339.
filter_models(models) ==
    LET g == filter_loop([deepseek |-> << >>, kimi |-> << >>,
                          qwen |-> << >>, minimax |-> << >>], models)
    IN  g.deepseek \o g.kimi \o g.qwen \o g.minimax

\* Mutant: DeepSeek-V3.1 is preferred to Kimi-K2.
preferred_swapped == <<DeepSeekAiV31, MoonshotKimiK2>>

\* Line 345: ['moonshotai/Kimi-K2-Instruct', 'deepseek-ai/DeepSeek-V3.1'].
preferred == <<MoonshotKimiK2, DeepSeekAiV31>>

\* Line 353: the hardcoded "moonshotai/Kimi-K2-Instruct".
FallbackModel == MoonshotKimiK2

\* Lines 348-350: the first model that contains preferred_model, None if none.
RECURSIVE first_containing(_, _)
first_containing(preferred_model, models) ==
    IF models = << >> THEN None
    ELSE IF Contains(preferred_model, Head(models)) THEN Head(models)
    ELSE first_containing(preferred_model, Tail(models))

\* Lines 347-353.
RECURSIVE select_from(_, _)
select_from(prefs, models) ==
    IF prefs = << >>
    THEN IF models # << >> THEN models[1] ELSE FallbackModel
    ELSE IF first_containing(Head(prefs), models) # None
    THEN first_containing(Head(prefs), models)
    ELSE select_from(Tail(prefs), models)

\* Lines 342-353.
select_default_model(models) == select_from(preferred, models)

(***************************************************************************)
(* The capability client and the curator applied to one request outcome.   *)
(***************************************************************************)
\* validate: test_api_connection(api_key), lines 486 and 697.
Validate ==
    /\ "validate" \notin done
    /\ LET r == test_api_connection(outcome, FALSE)
       IN  /\ valid' = r.value
           /\ valDiag' = r.diag
           /\ raisedBy' = IF r.raised THEN raisedBy \cup {"validate"} ELSE raisedBy
    /\ done' = done \cup {"validate"}
    /\ UNCHANGED <<outcome, all_models, catDiag, available_models, refiltered,
                   default_model, mirrorVars, sessionVars>>

\* fetchCatalog: test_api_connection(api_key, return_models=True), lines 549
\* and 634.
FetchCatalog ==
    /\ "fetch" \notin done
    /\ LET r == test_api_connection(outcome, TRUE)
       IN  /\ all_models' = r.value
           /\ catDiag' = r.diag
           /\ raisedBy' = IF r.raised THEN raisedBy \cup {"fetch"} ELSE raisedBy
    /\ done' = done \cup {"fetch"}
    /\ UNCHANGED <<outcome, valid, valDiag, available_models, refiltered,
                   default_model, mirrorVars, sessionVars>>

\* curate: filter_models(all_models), lines 556 and 639, reached with a
\* catalog that is not empty.
Curate ==
    /\ "fetch" \in done
    /\ "curate" \notin done
    /\ all_models # << >>
    /\ available_models' = filter_models(all_models)
    /\ done' = done \cup {"curate"}
    /\ UNCHANGED <<outcome, raisedBy, valid, valDiag, all_models, catDiag,
                   refiltered, default_model, mirrorVars, sessionVars>>

\* curate applied to a curated list.
Recurate ==
    /\ "curate" \in done
    /\ "recurate" \notin done
    /\ refiltered' = filter_models(available_models)
    /\ done' = done \cup {"recurate"}
    /\ UNCHANGED <<outcome, raisedBy, valid, valDiag, all_models, catDiag,
                   available_models, default_model, mirrorVars,
                   sessionVars>>

\* selectDefault: select_default_model(available_models), line 640.
SelectDefault ==
    /\ "curate" \in done
    /\ "default" \notin done
    /\ default_model' = select_default_model(available_models)
    /\ done' = done \cup {"default"}
    /\ UNCHANGED <<outcome, raisedBy, valid, valDiag, all_models, catDiag,
                   available_models, refiltered, mirrorVars, sessionVars>>

\* No request has been made.
CatalogIdle ==
    /\ done = {}
    /\ raisedBy = {}
    /\ valid = FALSE
    /\ valDiag = "none"
    /\ all_models = << >>
    /\ catDiag = "none"
    /\ available_models = << >>
    /\ refiltered = << >>
    /\ default_model = None

\* main() has not been entered.
NotExited == -1

SessionIdle ==
    /\ args_auto = FALSE
    /\ args_key = << >>
    /\ api_key = << >>
    /\ config_exists = FALSE
    /\ config_file = << >>
    /\ state = "NotStarted"
    /\ at = 0
    /\ selected_model = << >>
    /\ tries = 0
    /\ validated = {}
    /\ msg = "none"
    /\ input_line = << >>
    /\ exit_status = NotExited

MirrorInit ==
    /\ cache = None
    /\ pc = "idle"
    /\ use_cache = TRUE
    /\ pending = {}
    /\ results = << >>
    /\ ret = None
    /\ dispatched = 0
    /\ rounds = 0

\* The program as shipped: both call sites (lines 140, 359) pass the default
\* use_cache=True.
InitProbe ==
    /\ MirrorInit
    /\ CatalogIdle
    /\ SessionIdle
    /\ outcome = [exc |-> "none", status |-> 200, body |-> NoBody]
    /\ callerFlags = {TRUE}
    /\ latencyRange = 1..MaxLatency

\* The function with callers that may force re-probing; the network shows
\* one real latency, so the winner is decided by reachability and order.
InitCache ==
    /\ MirrorInit
    /\ CatalogIdle
    /\ SessionIdle
    /\ outcome = [exc |-> "none", status |-> 200, body |-> NoBody]
    /\ callerFlags = BOOLEAN
    /\ latencyRange = {1}

NextMirror ==
    \/ \E uc \in BOOLEAN : SelectCached(uc)
    \/ \E uc \in BOOLEAN : SelectProbe(uc)
    \/ \E m \in Candidates : \E e \in latencyRange \cup {INF} : ProbeDone(m, e)
    \/ RankAndReturn

SpecProbe == InitProbe /\ [][NextMirror]_vars

SpecCache == InitCache /\ [][NextMirror]_vars

\* One request outcome, drawn from Outcomes, and the client and the curator
\* applied to it; no mirror is probed.
InitCatalog ==
    /\ outcome \in Outcomes
    /\ CatalogIdle
    /\ MirrorInit
    /\ SessionIdle
    /\ callerFlags = {}
    /\ latencyRange = {}

NextCatalog ==
    \/ Validate
    \/ FetchCatalog
    \/ Curate
    \/ Recurate
    \/ SelectDefault

SpecCatalog == InitCatalog /\ [][NextCatalog]_vars

(***************************************************************************)
(* Text files.  A file is modelled as the sequence of its characters; it   *)
(* is read and written in text mode, as open(config_file, 'r') and         *)
(* open(config_file, 'w') do.                                              *)
(***************************************************************************)
\* str.strip() removes leading and trailing whitespace.
Whitespace == {" ", "\t", "\n", "\r"}

RECURSIVE lstrip(_)
lstrip(str) ==
    IF str # << >> /\ Head(str) \in Whitespace THEN lstrip(Tail(str)) ELSE str

RECURSIVE rstrip(_)
rstrip(str) ==
    IF str # << >> /\ str[Len(str)] \in Whitespace
    THEN rstrip(SubSeq(str, 1, Len(str) - 1))
    ELSE str

strip(str) == rstrip(lstrip(str))

\* str.startswith(prefix)
startswith(str, prefix) ==
    Len(str) >= Len(prefix) /\ SubSeq(str, 1, Len(prefix)) = prefix

\* str.split('=', 1)[1] of a string that contains "=": what follows the
\* first "=".
split_eq_1(str) ==
    LET first == CHOOSE i \in DOMAIN str :
                     str[i] = "=" /\ \A j \in 1..(i - 1) : str[j] # "="
    IN  SubSeq(str, first + 1, Len(str))

Indices(str) == [i \in 1..Len(str) |-> i]

\* Reading in text mode (newline=None): "\r\n" and a lone "\r" are
\* translated into "\n".
universal_newlines(data) ==
    LET kept == SelectSeq(Indices(data),
                    LAMBDA i : ~(data[i] = "\n" /\ i > 1 /\ data[i - 1] = "\r"))
    IN  [k \in DOMAIN kept |->
            IF data[kept[k]] = "\r" THEN "\n" ELSE data[kept[k]]]

\* The lines of a text, each with the "\n" that ends it; the last line has
\* none when the text does not end with one.
split_lines(text) ==
    LET ends == SelectSeq(Indices(text),
                    LAMBDA i : text[i] = "\n" \/ i = Len(text))
    IN  [k \in DOMAIN ends |->
            SubSeq(text, IF k = 1 THEN 1 ELSE ends[k - 1] + 1, ends[k])]

\* f.readlines(), and `for line in f`, on a file opened with open(path, 'r').
readlines(data) == split_lines(universal_newlines(data))

\* The characters a sequence of f.write(line) calls leaves in the file; on
\* this platform (termios, line 161) "\n" is written as it is.
RECURSIVE write_all(_)
write_all(lines) ==
    IF lines = << >> THEN << >> ELSE Head(lines) \o write_all(Tail(lines))


(***************************************************************************)
(* The persisted Config: get_api_key_from_config, create_config_file and   *)
(* the rewrite of switch_model.                                            *)
(***************************************************************************)

s_DEFAULT_MODEL_eq ==
    <<"D", "E", "F", "A", "U", "L", "T", "_", "M", "O", "D", "E", "L", "=">>

s_OPENAI_API_KEY_eq ==
    <<"O", "P", "E", "N", "A", "I", "_", "A", "P", "I", "_", "K", "E", "Y",
      "=">>

\* The user the process runs as: LOGNAME or USER (line 381) and Path.home().
username ==
    <<"u">>

home_dir ==
    <<"/", "h">>

\* The literal pieces of config_content (lines 390-410).

config_content_1 ==
    <<"C", "H", "A", "T", "_", "C", "A", "C", "H", "E", "_", "P", "A", "T",
      "H", "=", "/", "t", "m", "p", "/", "c", "h", "a", "t", "_", "c", "a",
      "c", "h", "e", "_">>

config_content_2 ==
    <<"\n", "C", "A", "C", "H", "E", "_", "P", "A", "T", "H", "=", "/", "t",
      "m", "p", "/", "c", "a", "c", "h", "e", "_">>

config_content_3 ==
    <<"\n", "C", "H", "A", "T", "_", "C", "A", "C", "H", "E", "_", "L", "E",
      "N", "G", "T", "H", "=", "1", "0", "0", "\n", "C", "A", "C", "H", "E",
      "_", "L", "E", "N", "G", "T", "H", "=", "1", "0", "0", "\n", "R", "E",
      "Q", "U", "E", "S", "T", "_", "T", "I", "M", "E", "O", "U", "T", "=",
      "6", "0", "\n", "D", "E", "F", "A", "U", "L", "T", "_", "M", "O", "D",
      "E", "L", "=">>

config_content_4 ==
    <<"\n", "D", "E", "F", "A", "U", "L", "T", "_", "C", "O", "L", "O", "R",
      "=", "m", "a", "g", "e", "n", "t", "a", "\n", "R", "O", "L", "E", "_",
      "S", "T", "O", "R", "A", "G", "E", "_", "P", "A", "T", "H", "=">>

config_content_5 ==
    <<"/", ".", "c", "o", "n", "f", "i", "g", "/", "s", "h", "e", "l", "l",
      "_", "g", "p", "t", "/", "r", "o", "l", "e", "s", "\n", "D", "E", "F",
      "A", "U", "L", "T", "_", "E", "X", "E", "C", "U", "T", "E", "_", "S",
      "H", "E", "L", "L", "_", "C", "M", "D", "=", "f", "a", "l", "s", "e",
      "\n", "D", "I", "S", "A", "B", "L", "E", "_", "S", "T", "R", "E", "A",
      "M", "I", "N", "G", "=", "f", "a", "l", "s", "e", "\n", "C", "O", "D",
      "E", "_", "T", "H", "E", "M", "E", "=", "d", "r", "a", "c", "u", "l",
      "a", "\n", "O", "P", "E", "N", "A", "I", "_", "F", "U", "N", "C", "T",
      "I", "O", "N", "S", "_", "P", "A", "T", "H", "=">>

config_content_6 ==
    <<"/", ".", "c", "o", "n", "f", "i", "g", "/", "s", "h", "e", "l", "l",
      "_", "g", "p", "t", "/", "f", "u", "n", "c", "t", "i", "o", "n", "s",
      "\n", "O", "P", "E", "N", "A", "I", "_", "U", "S", "E", "_", "F", "U",
      "N", "C", "T", "I", "O", "N", "S", "=", "t", "r", "u", "e", "\n", "S",
      "H", "O", "W", "_", "F", "U", "N", "C", "T", "I", "O", "N", "S", "_",
      "O", "U", "T", "P", "U", "T", "=", "f", "a", "l", "s", "e", "\n", "A",
      "P", "I", "_", "B", "A", "S", "E", "_", "U", "R", "L", "=", "h", "t",
      "t", "p", "s", ":", "/", "/", "a", "p", "i", ".", "s", "i", "l", "i",
      "c", "o", "n", "f", "l", "o", "w", ".", "c", "n", "\n", "P", "R", "E",
      "T", "T", "I", "F", "Y", "_", "M", "A", "R", "K", "D", "O", "W", "N",
      "=", "t", "r", "u", "e", "\n", "U", "S", "E", "_", "L", "I", "T", "E",
      "L", "L", "M", "=", "f", "a", "l", "s", "e", "\n", "O", "P", "E", "N",
      "A", "I", "_", "A", "P", "I", "_", "K", "E", "Y", "=">>

config_content_7 ==
    <<"\n", "S", "H", "E", "L", "L", "_", "I", "N", "T", "E", "R", "A", "C",
      "T", "I", "O", "N", "=", "t", "r", "u", "e", "\n", "O", "S", "_", "N",
      "A", "M", "E", "=", "a", "u", "t", "o", "\n", "S", "H", "E", "L", "L",
      "_", "N", "A", "M", "E", "=", "a", "u", "t", "o">>

\* Mutant: the key and the model are written in each other's place.
config_content_swapped(key, model) ==
    config_content_1 \o username \o config_content_2 \o username \o
    config_content_3 \o key \o config_content_4 \o home_dir \o
    config_content_5 \o home_dir \o config_content_6 \o model \o
    config_content_7

\* Lines 390-410: the text create_config_file writes.
config_content(key, model) ==
    config_content_1 \o username \o config_content_2 \o username \o
    config_content_3 \o model \o config_content_4 \o home_dir \o
    config_content_5 \o home_dir \o config_content_6 \o key \o
    config_content_7

\* Lines 235-244: the value of the first line that starts, once stripped,
\* with OPENAI_API_KEY=; empty (None) when no line does.
RECURSIVE key_in_lines(_)
key_in_lines(lines) ==
    IF lines = << >> THEN << >>
    ELSE IF startswith(strip(Head(lines)), s_OPENAI_API_KEY_eq)
    THEN split_eq_1(strip(Head(lines)))
    ELSE key_in_lines(Tail(lines))

\* Lines 227-244.  `readable` is FALSE when opening or decoding the file
\* raises, which line 241 turns into None.
get_api_key_from_config(readable) ==
    IF ~config_exists THEN << >>
    ELSE IF ~readable THEN << >>
    ELSE key_in_lines(readlines(config_file))

\* Lines 247-254.
get_api_key(provided_key, readable) ==
    IF provided_key # << >> THEN provided_key
    ELSE get_api_key_from_config(readable)

\* Lines 524-528: the model show_current_config reports, the value of the
\* first line that starts, once stripped, with DEFAULT_MODEL=; empty when no
\* line does.
RECURSIVE model_in_lines(_)
model_in_lines(lines) ==
    IF lines = << >> THEN << >>
    ELSE IF startswith(strip(Head(lines)), s_DEFAULT_MODEL_eq)
    THEN split_eq_1(strip(Head(lines)))
    ELSE model_in_lines(Tail(lines))

shown_model(data) == model_in_lines(readlines(data))

\* Lines 615-619: what is written for one line read.
rewrite_line(line, selected) ==
    IF startswith(strip(line), s_DEFAULT_MODEL_eq)
    THEN s_DEFAULT_MODEL_eq \o selected \o <<"\n">>
    ELSE line

\* Lines 610-619: the file after the rewrite of switch_model.
rewrite_config(data, selected) ==
    LET lines == readlines(data)
    IN  write_all([k \in DOMAIN lines |-> rewrite_line(lines[k], selected)])


(***************************************************************************)
(* The inputs of a session.                                                *)
(***************************************************************************)

\* Credentials: the one given with --key or found in the Config, and one the
\* user types.
sk_first ==
    <<"s", "k", "-", "f", "i", "r", "s", "t", "-", "1">>

sk_second ==
    <<"s", "k", "-", "s", "e", "c", "o", "n", "d", "-", "2">>

\* What the user types at the credential prompt (line 468).
typed_second_padded ==
    <<" ", "s", "k", "-", "s", "e", "c", "o", "n", "d", "-", "2", " ">>

typed_short ==
    <<"s", "k", "-", "s", "h", "o", "r", "t">>

typed_cancel ==
    <<"c", "a", "n", "c", "e", "l">>

typed_Cancel ==
    <<"C", "a", "n", "c", "e", "l">>

TypedKeys ==
    {sk_first, sk_second, typed_second_padded, typed_short, typed_cancel,
     typed_Cancel}


\* A Config some earlier run or the user left, with "\n" line ends.
ConfigLF ==
    <<"C", "A", "C", "H", "E", "_", "L", "E", "N", "G", "T", "H", "=", "1",
      "0", "0", "\n", "R", "E", "Q", "U", "E", "S", "T", "_", "T", "I", "M",
      "E", "O", "U", "T", "=", "6", "0", "\n", " ", " ", "D", "E", "F", "A",
      "U", "L", "T", "_", "M", "O", "D", "E", "L", "=", "g", "p", "t", "-",
      "4", "\n", "D", "E", "F", "A", "U", "L", "T", "_", "C", "O", "L", "O",
      "R", "=", "m", "a", "g", "e", "n", "t", "a", "\n", "O", "P", "E", "N",
      "A", "I", "_", "A", "P", "I", "_", "K", "E", "Y", "=", "s", "k", "-",
      "f", "i", "r", "s", "t", "-", "1", "\n", "O", "S", "_", "N", "A", "M",
      "E", "=", "a", "u", "t", "o">>

\* A Config edited on another platform, with "\r\n" line ends.
ConfigCRLF ==
    <<"D", "E", "F", "A", "U", "L", "T", "_", "M", "O", "D", "E", "L", "=",
      "g", "p", "t", "-", "4", "\r", "\n", "O", "P", "E", "N", "A", "I", "_",
      "A", "P", "I", "_", "K", "E", "Y", "=", "s", "k", "-", "f", "i", "r",
      "s", "t", "-", "1", "\r", "\n", "O", "S", "_", "N", "A", "M", "E", "=",
      "a", "u", "t", "o", "\r", "\n">>

\* A Config with neither a model nor a credential.
ConfigBare ==
    <<"O", "S", "_", "N", "A", "M", "E", "=", "a", "u", "t", "o", "\n">>

\* The Config at the start of a run: <<exists, characters>>.
InitialConfigs ==
    {<<FALSE, << >>>>, <<TRUE, ConfigLF>>, <<TRUE, ConfigCRLF>>,
     <<TRUE, ConfigBare>>}

\* What the request of a validate call can yield in a session.
ValidateOutcomes ==
    {[exc |-> "none", status |-> 200, body |-> NoBody],
     [exc |-> "none", status |-> 401, body |-> NoBody],
     [exc |-> "ConnectionError", status |-> 0, body |-> NoBody]}

\* What the request of a fetchCatalog call can yield in a session: the
\* example catalog, a catalog with no supported model, an empty catalog, a
\* failure.
CatalogOutcomes ==
    {[exc |-> "none", status |-> 200,
      body |-> [shape |-> "ok", ids |-> ExampleCatalog]],
     [exc |-> "none", status |-> 200,
      body |-> [shape |-> "ok", ids |-> <<DeepSeekAiR1, Glm4>>]],
     [exc |-> "none", status |-> 200,
      body |-> [shape |-> "ok", ids |-> <<Glm4>>]],
     [exc |-> "none", status |-> 200, body |-> [shape |-> "ok", ids |-> << >>]],
     [exc |-> "none", status |-> 500, body |-> NoBody]}


s_0 ==
    <<"0">>

s_back ==
    <<"b", "a", "c", "k">>

s_cancel ==
    <<"c", "a", "n", "c", "e", "l">>

\* What the user types at the selection prompt (line 574).
typed_Back ==
    <<" ", "B", "a", "c", "k", " ">>

typed_1 ==
    <<"1">>

typed_2 ==
    <<"2">>

typed_9 ==
    <<"9">>

typed_00 ==
    <<"0", "0">>

Choices ==
    {s_0, s_back, s_cancel, typed_Back, typed_1, typed_2, typed_9, typed_00,
     MoonshotKimiK2, Glm4}


(***************************************************************************)
(* The session: main(), the menu loop and the operations it starts.        *)
(***************************************************************************)
\* str.isdigit() and int(str) for ASCII digits.
DigitChars == <<"0", "1", "2", "3", "4", "5", "6", "7", "8", "9">>

isdigit(str) ==
    /\ str # << >>
    /\ \A i \in DOMAIN str : \E d \in DOMAIN DigitChars : DigitChars[d] = str[i]

digit(c) == (CHOOSE d \in DOMAIN DigitChars : DigitChars[d] = c) - 1

RECURSIVE int(_)
int(str) ==
    IF str = << >> THEN 0
    ELSE 10 * int(SubSeq(str, 1, Len(str) - 1)) + digit(str[Len(str)])

\* Mutant: any name is taken for a name of the list.
in_list_any(x, list) == TRUE

\* Line 590: `choice in available_models`.
in_list(x, list) == \E i \in DOMAIN list : list[i] = x

\* Mutant: "0" is read as a model number.
is_cancel_without_zero(choice) == lower(choice) \in {s_back, s_cancel}

\* Line 577: choice.lower() in ['0', 'back', 'cancel', ...]; the fourth
\* token is not ASCII and cannot be typed with the inputs of this model.
is_cancel(choice) == lower(choice) \in {s_0, s_back, s_cancel}

\* Lines 574-595 for one input line: "cancel", "select" with the model
\* selected, or "retry".
read_choice(typed, models) ==
    LET choice == strip(typed)
    IN  IF is_cancel(choice)
        THEN [kind |-> "cancel", model |-> << >>]
        ELSE IF isdigit(choice)
        THEN IF 0 <= int(choice) - 1 /\ int(choice) - 1 < Len(models)
             THEN [kind |-> "select", model |-> models[int(choice)]]
             ELSE [kind |-> "retry", model |-> << >>]
        ELSE IF in_list(choice, models)
        THEN [kind |-> "select", model |-> choice]
        ELSE [kind |-> "retry", model |-> << >>]

\* Lines 468-493 for one typed line: "cancel", "key" with the validated key,
\* or "retry".
read_api_key(allow_cancel, typed, o) ==
    LET key == strip(typed)
    IN  IF allow_cancel /\ lower(key) = s_cancel
        THEN [kind |-> "cancel", key |-> << >>]
        ELSE IF Len(key) < 10
        THEN [kind |-> "retry", key |-> << >>]
        ELSE IF test_api_connection(o, FALSE).value
        THEN [kind |-> "key", key |-> key]
        ELSE [kind |-> "retry", key |-> << >>]

\* Mutant: the key found is kept whatever the validation says.
checked_key_unchecked(key, ok) == key

\* Lines 691-701: the key found at startup is kept only if it validates.
checked_key(key, ok) == IF key # << >> /\ ok THEN key ELSE << >>

\* Mutant: the result of the installer is not looked at.
installer_failed_ignored(ok) == FALSE

\* Lines 645-646: `if not install_shell_gpt(): return False`.
installer_failed(ok) == ~ok

\* Mutant: the interrupt is re-raised to the caller.
interrupt_returns_never(allow_cancel) == FALSE

\* Lines 495-499: with allow_cancel the interrupt returns None, otherwise it
\* is raised again.
interrupt_returns(allow_cancel) == allow_cancel

\* Mutant: the key is replaced by whatever the prompt returned.
new_api_key_always(old, new_key) == new_key

\* Lines 738-742: `if new_key: api_key = new_key`.
new_api_key(old, new_key) == IF new_key # << >> THEN new_key ELSE old

\* Mutant: an empty list goes on to the prompt.
nothing_to_offer_never(models) == FALSE

\* Lines 551 and 557: `if not all_models`, `if not available_models`.
nothing_to_offer(models) == models = << >>

\* Mutant: the rewrite is attempted without looking for the file.
config_missing_never(exists) == FALSE

\* Line 604: `if not config_file.exists()`.
config_missing(exists) == ~exists

\* Line 637: the model written when no catalog could be fetched.
auto_install_default == MoonshotKimiK2

\* Lines 67-131 as install_shell_gpt sees them (line 359): the cached mirror
\* if there is one, otherwise the mirror the probing round selects, which is
\* one of the candidates.
find_fastest_pip_mirror(chosen) ==
    IF cache_usable(TRUE) THEN cached_result ELSE chosen

\* Ctrl-C at a prompt (line 196, and SIGINT during input()), recorded in
\* place of the line that was not entered.
CtrlC == <<"^C">>

\* The variables a session leaves alone.
argsVars == <<args_auto, args_key>>

mirrorRest == <<pc, use_cache, pending, results, dispatched, rounds,
                callerFlags, latencyRange>>

catalogRest == <<outcome, done, raisedBy, valid, valDiag, catDiag, refiltered>>

SessionFrame == UNCHANGED <<argsVars, mirrorRest, catalogRest>>

localVars == <<all_models, available_models, default_model, selected_model>>

\* The locals of auto_install and switch_model end with the call.
DropLocals ==
    /\ all_models' = << >>
    /\ available_models' = << >>
    /\ default_model' = None
    /\ selected_model' = << >>

\* The call returns to the menu loop (line 724) after printing m.
ToMenu(m) ==
    /\ state' = "MainMenu"
    /\ at' = 725
    /\ msg' = m
    /\ UNCHANGED <<tries, exit_status>>

\* The process ends with sys.exit(status) (lines 756, 759) or, for status 1
\* and an exception nobody catches, with the interpreter's traceback.
Exit(status, m) ==
    /\ state' = "Exiting"
    /\ at' = 756
    /\ msg' = m
    /\ tries' = 0
    /\ exit_status' = status

\* Lines 719-724: with a credential in hand, install or show the menu.
Proceed(m) ==
    /\ state' = IF args_auto THEN "Installing" ELSE "MainMenu"
    /\ at' = IF args_auto THEN 634 ELSE 725
    /\ msg' = m
    /\ tries' = 0
    /\ exit_status' = exit_status

\* The prompt loop rejects the input and asks again.
Retry(m) ==
    /\ tries < MaxTries
    /\ tries' = tries + 1
    /\ msg' = m
    /\ UNCHANGED <<state, at, exit_status>>

\* Lines 689-701: find a key (argument, then Config) and validate it.
GetApiKey(readable, o) ==
    /\ state = "Startup" /\ at = 689
    /\ LET found == get_api_key(args_key, readable)
           ok == found # << >> /\ test_api_connection(o, FALSE).value
       IN  /\ api_key' = checked_key(found, ok)
           /\ validated' = IF ok THEN validated \cup {found} ELSE validated
           /\ IF api_key' # << >>
              THEN Proceed("api_ok")
              ELSE /\ state' = "Startup"
                   /\ at' = 711
                   /\ msg' = "need_key"
                   /\ UNCHANGED <<tries, exit_status>>
    /\ UNCHANGED <<config_exists, config_file, localVars, cache, ret>>
    /\ UNCHANGED input_line
    /\ SessionFrame

\* Lines 710-717 with interactive_set_api_key(allow_cancel=False): one line
\* typed at the first-time prompt.
AcquireKey(typed, o) ==
    /\ state = "Startup" /\ at = 711
    /\ LET r == read_api_key(FALSE, typed, o)
       IN  IF r.kind = "key"
           THEN /\ api_key' = r.key
                /\ validated' = validated \cup {r.key}
                /\ Proceed("key_accepted")
           ELSE /\ Retry("key_rejected")
                /\ UNCHANGED <<api_key, validated>>
    /\ UNCHANGED <<config_exists, config_file, localVars, cache, ret>>
    /\ input_line' = typed
    /\ SessionFrame

\* Lines 495-499 and 715-717: Ctrl-C at the first-time prompt is raised
\* again, main returns False.
AcquireInterrupt ==
    /\ state = "Startup" /\ at = 711
    /\ Exit(1, "cancelled")
    /\ UNCHANGED <<api_key, validated, config_exists, config_file, localVars,
                   cache, ret>>
    /\ input_line' = CtrlC
    /\ SessionFrame

\* Line 725: show_menu().
ShowMenu ==
    /\ state = "MainMenu" /\ at = 725
    /\ at' = 727
    /\ msg' = "menu"
    /\ tries' = 0
    /\ UNCHANGED <<state, exit_status, api_key, validated,
                   config_exists, config_file, localVars, cache, ret>>
    /\ input_line' = << >>
    /\ SessionFrame

\* Lines 441-447 and 727-744: one line typed at the menu prompt.
MenuChoice(choice) ==
    /\ state = "MainMenu" /\ at = 727
    /\ IF choice = "0" THEN Exit(0, "bye")
       ELSE IF choice \in {"1", "2", "3", "4"}
       THEN /\ state' = IF choice = "1" THEN "Installing"
                        ELSE IF choice = "2" THEN "SwitchingModel"
                        ELSE IF choice = "3" THEN "SettingKey"
                        ELSE "ShowingConfig"
            /\ at' = IF choice = "1" THEN 634
                     ELSE IF choice = "2" THEN 549
                     ELSE IF choice = "3" THEN 468
                     ELSE 510
            /\ msg' = "started"
            /\ tries' = 0
            /\ UNCHANGED exit_status
       ELSE Retry("invalid_choice")
    /\ UNCHANGED <<api_key, validated, config_exists, config_file, localVars,
                   cache, ret>>
    /\ UNCHANGED input_line
    /\ SessionFrame

\* Lines 746-748: Ctrl-C at the menu prompt ends the loop; main returns True.
MenuInterrupt ==
    /\ state = "MainMenu" /\ at = 727
    /\ Exit(0, "interrupted")
    /\ UNCHANGED <<api_key, validated, config_exists, config_file, localVars,
                   cache, ret>>
    /\ input_line' = CtrlC
    /\ SessionFrame

\* Lines 632-641: fetch the catalog and choose the default model.
InstallFetch(o) ==
    /\ state = "Installing" /\ at = 634
    /\ all_models' = test_api_connection(o, TRUE).value
    /\ IF all_models' = << >>
       THEN /\ default_model' = auto_install_default
            /\ available_models' = << >>
            /\ msg' = "no_catalog_warning"
       ELSE /\ available_models' = filter_models(all_models')
            /\ default_model' = select_default_model(available_models')
            /\ msg' = "models_found"
    /\ at' = 645
    /\ UNCHANGED <<state, tries, exit_status, selected_model, api_key,
                   validated, config_exists, config_file, cache, ret>>
    /\ UNCHANGED input_line
    /\ SessionFrame

\* Lines 356-375 and 645-646: pick the mirror and run pip; install_shell_gpt
\* prints the outcome (lines 370, 373) and auto_install returns False on
\* failure.
InstallPackage(chosen, ok) ==
    /\ state = "Installing" /\ at = 645
    /\ cache' = find_fastest_pip_mirror(chosen)
    /\ ret' = cache'
    /\ LET printed == IF ok THEN "installed" ELSE "install_failed"
       IN  IF installer_failed(ok)
           THEN /\ IF args_auto THEN Exit(1, printed) ELSE ToMenu(printed)
                /\ DropLocals
           ELSE /\ at' = 650
                /\ msg' = printed
                /\ UNCHANGED <<state, tries, exit_status, localVars>>
    /\ UNCHANGED <<api_key, validated, config_exists, config_file>>
    /\ UNCHANGED input_line
    /\ SessionFrame

\* Lines 378-427 and 650-662: write the Config.  io is "ok", or the place an
\* OSError comes from: mkdir (line 387), open (line 413, nothing written), or
\* write (line 414, the file already truncated).  Nothing up to sys.exit
\* catches it.
InstallWrite(io) ==
    /\ state = "Installing" /\ at = 650
    /\ IF io = "ok"
       THEN /\ config_exists' = TRUE
            /\ config_file' = config_content(api_key, default_model)
            /\ IF args_auto
               THEN Exit(0, "install_complete")
               ELSE ToMenu("install_complete")
       ELSE /\ config_exists' = (config_exists \/ io = "write")
            /\ config_file' = IF io = "write" THEN << >> ELSE config_file
            /\ Exit(1, "traceback")
    /\ DropLocals
    /\ UNCHANGED <<api_key, validated, cache, ret>>
    /\ UNCHANGED input_line
    /\ SessionFrame

\* Lines 547-563: fetch and curate the catalog, print the list.
SwitchFetch(o) ==
    /\ state = "SwitchingModel" /\ at = 549
    /\ LET fetched == test_api_connection(o, TRUE).value
           curated == filter_models(fetched)
       IN  IF nothing_to_offer(fetched)
           THEN ToMenu("no_catalog") /\ DropLocals
           ELSE IF nothing_to_offer(curated)
           THEN ToMenu("no_supported_model") /\ DropLocals
           ELSE /\ all_models' = fetched
                /\ available_models' = curated
                /\ at' = 574
                /\ msg' = "model_list"
                /\ UNCHANGED <<state, tries, exit_status, default_model,
                               selected_model>>
    /\ UNCHANGED <<api_key, validated, config_exists, config_file, cache, ret>>
    /\ UNCHANGED input_line
    /\ SessionFrame

\* Lines 572-595: one line typed at the selection prompt.
SwitchChoice(typed) ==
    /\ state = "SwitchingModel" /\ at = 574
    /\ LET r == read_choice(typed, available_models)
       IN  IF r.kind = "cancel"
           THEN ToMenu("back_to_menu") /\ DropLocals
           ELSE IF r.kind = "select"
           THEN /\ selected_model' = r.model
                /\ at' = 604
                /\ msg' = "selected"
                /\ UNCHANGED <<state, tries, exit_status, all_models,
                               available_models, default_model>>
           ELSE /\ Retry("choice_rejected")
                /\ UNCHANGED localVars
    /\ UNCHANGED <<api_key, validated, config_exists, config_file, cache, ret>>
    /\ input_line' = typed
    /\ SessionFrame

\* Lines 596-598: Ctrl-C at the selection prompt.
SwitchInterrupt ==
    /\ state = "SwitchingModel" /\ at = 574
    /\ ToMenu("cancelled")
    /\ DropLocals
    /\ UNCHANGED <<api_key, validated, config_exists, config_file, cache, ret>>
    /\ input_line' = CtrlC
    /\ SessionFrame

\* Lines 600-624: rewrite the Config.  io is "ok", or the place an exception
\* comes from: read (lines 610-611), open (line 614, nothing written) or
\* write (lines 615-619, the file already truncated); line 623 catches it.
SwitchRewrite(io) ==
    /\ state = "SwitchingModel" /\ at = 604
    /\ IF config_missing(config_exists)
       THEN /\ ToMenu("config_missing")
            /\ UNCHANGED <<config_exists, config_file>>
       ELSE IF io = "ok"
       THEN /\ config_file' = rewrite_config(config_file, selected_model)
            /\ config_exists' = TRUE
            /\ ToMenu("switched")
       ELSE /\ config_file' = IF io = "write" THEN << >> ELSE config_file
            /\ config_exists' = TRUE
            /\ ToMenu("update_failed")
    /\ DropLocals
    /\ UNCHANGED <<api_key, validated, cache, ret>>
    /\ UNCHANGED input_line
    /\ SessionFrame

\* Lines 736-742 with interactive_set_api_key(allow_cancel=True): one line
\* typed at the credential prompt.
SetKey(typed, o) ==
    /\ state = "SettingKey" /\ at = 468
    /\ LET r == read_api_key(TRUE, typed, o)
       IN  IF r.kind = "retry"
           THEN /\ Retry("key_rejected")
                /\ UNCHANGED <<api_key, validated>>
           ELSE /\ api_key' = new_api_key(api_key, r.key)
                /\ validated' = IF r.kind = "key"
                                THEN validated \cup {r.key}
                                ELSE validated
                /\ ToMenu(IF r.key # << >> THEN "key_updated" ELSE "key_kept")
    /\ UNCHANGED <<config_exists, config_file, localVars, cache, ret>>
    /\ input_line' = typed
    /\ SessionFrame

\* Lines 495-499 and 738-742: Ctrl-C at the credential prompt of the menu.
SetKeyInterrupt ==
    /\ state = "SettingKey" /\ at = 468
    /\ IF interrupt_returns(TRUE)
       THEN /\ api_key' = new_api_key(api_key, << >>)
            /\ ToMenu("key_kept")
       ELSE /\ api_key' = api_key
            /\ Exit(0, "interrupted")
    /\ UNCHANGED <<validated, config_exists, config_file, localVars, cache, ret>>
    /\ input_line' = CtrlC
    /\ SessionFrame

\* Lines 502-539 and 743-744: show the Config, or say there is none.
ShowConfig(readable) ==
    /\ state = "ShowingConfig" /\ at = 510
    /\ ToMenu(IF ~config_exists THEN "config_not_created"
              ELSE IF readable THEN "config_shown"
              ELSE "read_failed")
    /\ UNCHANGED <<api_key, validated, config_exists, config_file, localVars,
                   cache, ret>>
    /\ UNCHANGED input_line
    /\ SessionFrame

\* Ctrl-C while no prompt of an operation is waiting: at startup it reaches
\* line 757; in an operation of the menu it reaches line 746, in auto mode
\* line 757.  Either way the status is 0.
Interrupt ==
    /\ \/ state = "Startup" /\ at = 689
       \/ state \in {"Installing", "ShowingConfig"}
       \/ state = "SwitchingModel" /\ at \in {549, 604}
    /\ Exit(0, "interrupted")
    /\ DropLocals
    /\ UNCHANGED <<api_key, validated, config_exists, config_file, cache, ret>>
    /\ UNCHANGED input_line
    /\ SessionFrame

\* A run of the script: its arguments and the Config it finds.
InitSession ==
    /\ MirrorInit
    /\ CatalogIdle
    /\ outcome = [exc |-> "none", status |-> 200, body |-> NoBody]
    /\ callerFlags = {TRUE}
    /\ latencyRange = {}
    /\ args_auto \in BOOLEAN
    /\ args_key \in {<< >>, sk_first}
    /\ api_key = << >>
    /\ \E c \in InitialConfigs : config_exists = c[1] /\ config_file = c[2]
    /\ state = "Startup"
    /\ at = 689
    /\ selected_model = << >>
    /\ tries = 0
    /\ validated = {}
    /\ msg = "none"
    /\ input_line = << >>
    /\ exit_status = NotExited

NextSession ==
    \/ \E readable \in BOOLEAN : \E o \in ValidateOutcomes : GetApiKey(readable, o)
    \/ \E typed \in TypedKeys : \E o \in ValidateOutcomes : AcquireKey(typed, o)
    \/ AcquireInterrupt
    \/ ShowMenu
    \/ \E choice \in {"0", "1", "2", "3", "4", "5"} : MenuChoice(choice)
    \/ MenuInterrupt
    \/ \E o \in CatalogOutcomes : InstallFetch(o)
    \/ \E chosen \in Candidates : \E ok \in BOOLEAN : InstallPackage(chosen, ok)
    \/ \E io \in {"ok", "mkdir", "open", "write"} : InstallWrite(io)
    \/ \E o \in CatalogOutcomes : SwitchFetch(o)
    \/ \E typed \in Choices : SwitchChoice(typed)
    \/ SwitchInterrupt
    \/ \E io \in {"ok", "read", "open", "write"} : SwitchRewrite(io)
    \/ \E typed \in TypedKeys : \E o \in ValidateOutcomes : SetKey(typed, o)
    \/ SetKeyInterrupt
    \/ \E readable \in BOOLEAN : ShowConfig(readable)
    \/ Interrupt

SpecSession == InitSession /\ [][NextSession]_vars

(***************************************************************************)
(* Properties of the mirror selector.                                      *)
(***************************************************************************)
\* The last call ran a probing round that has ended: `results` holds its
\* ranking and `ret` what it returned.
RoundReturned == pc = "idle" /\ dispatched > 0

Reachable(r) == {i \in DOMAIN r : r[i][3] # INF}

\* The entries of r with the least real latency.
Fastest(r) ==
    {i \in Reachable(r) : \A j \in Reachable(r) : ~LatLess(r[j][3], r[i][3])}

\* Position of a mirror name in the declaration order of PIP_MIRRORS.
Declared(name) == CHOOSE i \in DOMAIN PIP_MIRRORS : PIP_MIRRORS[i][1] = name

\* C1: a select call that ran a probing round over the six candidates returns
\* a reachable candidate whose latency is at most that of every other
\* reachable candidate, and the default fallback when none is reachable.
C1_FastestOrDefault ==
    RoundReturned =>
        /\ Len(results) = Len(PIP_MIRRORS)
        /\ IF Reachable(results) = {}
           THEN ret = DEFAULT_PIP_MIRROR
           ELSE \E i \in Fastest(results) : ret = <<results[i][1], results[i][2]>>

\* A round in which the mirrors showed two different latencies and one was
\* unreachable has returned.
C1_Witness ==
    /\ RoundReturned
    /\ Len(results) = Len(PIP_MIRRORS)
    /\ results[1][3] = 1
    /\ \E i \in DOMAIN results : results[i][3] = 2
    /\ results[Len(results)][3] = INF
    /\ ret = <<results[1][1], results[1][2]>>

\* C2: a select call made without forced re-probing, after an earlier call of
\* the process has returned, returns the pair that call returned and
\* dispatches no probe, whatever the mirrors would answer now.
C2_CachedCallRepeats ==
    [][(pc' = "idle" /\ use_cache' /\ ret # None)
          => (ret' = ret /\ dispatched' = 0 /\ pending' = {})]_vars

\* A call was answered from the cache after a round in which every mirror
\* was unreachable had cached the default fallback.
C2_Witness ==
    /\ pc = "idle"
    /\ use_cache
    /\ dispatched = 0
    /\ Len(results) = Len(PIP_MIRRORS)
    /\ Reachable(results) = {}
    /\ ret = DEFAULT_PIP_MIRROR
    /\ cache = ret

\* C3 as stated: over any sequence of select calls, forced or not, the cache
\* goes from unset to set once and never changes afterwards.
C3_StoredOnce == [][cache # None => cache' = cache]_vars

\* C3 amended: once set the cache stays set, and only the return of a call
\* that forces re-probing (use_cache = False) changes its value.
C3_StoredOncePerRound ==
    [][cache # None =>
         /\ cache' # None
         /\ cache' # cache => (~use_cache /\ pc = "probing" /\ pc' = "idle")]_vars

\* A forced round has replaced the cached mirror, and a later call was
\* answered from the cache.
C3_Witness ==
    /\ rounds = 2
    /\ pc = "idle"
    /\ use_cache
    /\ dispatched = 0
    /\ cache # None

\* Position of entry x in the list r.
Pos(r, x) == CHOOSE i \in DOMAIN r : r[i] = x

\* C4 as stated: among the candidates tied at the least latency the one
\* declared first in PIP_MIRRORS is selected, whatever the completion order.
C4_TieByDeclaration ==
    (RoundReturned /\ Reachable(results) # {}) =>
        \E i \in Fastest(results) :
            /\ ret = <<results[i][1], results[i][2]>>
            /\ \A j \in Fastest(results) :
                   Declared(results[i][1]) <= Declared(results[j][1])

\* C4 amended: the ranking is a stable sort of the results in the order the
\* probes completed, so among the candidates tied at the least latency the
\* one whose probe completed first is selected.
C4_TieByCompletion ==
    [][(pc = "probing" /\ pc' = "idle") =>
         /\ Len(results') = Len(results)
         /\ \A k \in DOMAIN results' : \A l \in DOMAIN results' :
               k < l =>
                   /\ ~LatLess(results'[l][3], results'[k][3])
                   /\ results'[k][3] = results'[l][3] =>
                          Pos(results, results'[k]) < Pos(results, results'[l])
         /\ Reachable(results) # {} =>
               \E i \in Fastest(results) :
                   /\ ret' = <<results[i][1], results[i][2]>>
                   /\ \A j \in Fastest(results) : i <= j]_vars

\* Two candidates tied at the least latency, and the one selected is declared
\* after the other.
C4_Witness ==
    /\ RoundReturned
    /\ Len(results) = Len(PIP_MIRRORS)
    /\ results[1][3] # INF
    /\ results[1][3] = results[2][3]
    /\ Declared(results[1][1]) > Declared(results[2][1])
    /\ ret = <<results[1][1], results[1][2]>>

\* C5: ranking, selection and the cache write happen only when every one of
\* the six probes has produced a result, one result per candidate; a probe
\* leaves the outstanding set only by delivering its result.
C5_JoinAll ==
    [][/\ (cache' # cache \/ (pc = "probing" /\ pc' = "idle")) =>
            /\ pending = {}
            /\ Len(results) = Len(PIP_MIRRORS)
            /\ \A m \in Candidates :
                   Cardinality({i \in DOMAIN results : results[i][1] = m[1]}) = 1
       /\ pending' # pending =>
            \/ pending = {} /\ pending' = Candidates /\ results' = << >>
            \/ \E m \in pending :
                   /\ pending' = pending \ {m}
                   /\ Len(results') = Len(results) + 1
                   /\ results'[Len(results')][1] = m[1]]_vars

\* A probe has already succeeded while others are outstanding, and nothing
\* has been ranked or cached.
C5_Witness ==
    /\ pc = "probing"
    /\ pending # {}
    /\ Reachable(results) # {}
    /\ cache = None


(***************************************************************************)
(* Properties of the capability client.                                    *)
(***************************************************************************)
\* The failures the request can end with, as the taxonomy lists them: a
\* request exception, a status outside 2xx, a body of unexpected shape.
ListedFailure(o) ==
    o.exc # "none" \/ o.status \notin 200..299 \/ o.body.shape # "ok"

\* The request itself failed: an exception, or an HTTP error status.
RequestFailed(o) == o.exc # "none" \/ o.status \in ErrorStatuses

\* C6 as stated: neither call raises; for every listed failure, a malformed
\* body included, validate is false and fetchCatalog empty, and only a 2xx
\* response gives true / the ids.
C6_EveryFailureIsFalse ==
    /\ raisedBy = {}
    /\ "validate" \in done => (valid <=> ~ListedFailure(outcome))
    /\ "fetch" \in done =>
           all_models = IF ListedFailure(outcome) THEN << >> ELSE outcome.body.ids

\* C6 amended: neither call raises; validate is false exactly when the
\* request failed (exception, 4xx, 5xx) and true for every other response,
\* whatever its body; fetchCatalog is empty when the request failed or the
\* body is malformed and the ids otherwise.
C6_NeverRaises ==
    /\ raisedBy = {}
    /\ "validate" \in done => (valid <=> ~RequestFailed(outcome))
    /\ "fetch" \in done =>
           all_models = IF RequestFailed(outcome) \/ outcome.body.shape # "ok"
                        THEN << >> ELSE outcome.body.ids

\* Both calls have answered an HTTP 401.
C6_Witness ==
    /\ {"validate", "fetch"} \subseteq done
    /\ outcome.status = 401
    /\ ~valid
    /\ all_models = << >>
    /\ raisedBy = {}

\* C7 as stated: validate fails with a diagnostic class exactly when
\* fetchCatalog fails with the same class, for every outcome.
C7_SameClassification ==
    {"validate", "fetch"} \subseteq done =>
        /\ valDiag = catDiag
        /\ ~valid <=> (all_models = << >> /\ catDiag # "none")

\* C7 amended: when the request failed both calls fail with the same
\* diagnostic class; for any other response validate succeeds without a
\* diagnostic, and fetchCatalog reports the generic (Malformed) class exactly
\* when the body is not JSON, not an object or has an entry without id.
C7_SameClassificationOfRequestFailures ==
    {"validate", "fetch"} \subseteq done =>
        IF RequestFailed(outcome)
        THEN /\ ~valid
             /\ all_models = << >>
             /\ valDiag = catDiag
             /\ valDiag # "none"
        ELSE /\ valid
             /\ valDiag = "none"
             /\ catDiag = IF outcome.body.shape \in
                               {"not_json", "not_object", "item_without_id"}
                          THEN "Unknown" ELSE "none"

\* A 200 response whose body is not JSON: validate succeeded, fetchCatalog
\* reported the generic failure.
C7_Witness ==
    /\ {"validate", "fetch"} \subseteq done
    /\ outcome.status = 200
    /\ outcome.body.shape = "not_json"
    /\ valid
    /\ catDiag = "Unknown"
    /\ all_models = << >>

(***************************************************************************)
(* Properties of the curator.                                              *)
(***************************************************************************)
\* Rules (1) and (2) on the lowercase form l: premium tier, and legacy qwen.
Excluded(l) ==
    \/ Contains(s_pro, l)
    \/ Contains(s_plus, l)
    \/ Contains(s_qwen, l) /\ (Contains(s_2_5, l) \/ Contains(s_qwen2, l))

\* Rule (3) on the lowercase form l: the first family matched, 0 if none.
Family(l) ==
    IF Contains(s_deepseek, l) THEN 1
    ELSE IF Contains(s_kimi, l) THEN 2
    ELSE IF Contains(s_qwen, l) THEN 3
    ELSE IF Contains(s_minimax, l) THEN 4
    ELSE 0

\* The group of the curated list an identifier belongs to, 0 if dropped.
GroupOfLower(l) == IF Excluded(l) THEN 0 ELSE Family(l)

GroupOf(model) == GroupOfLower(lower(model))

\* The kept identifiers of group k, in catalog order.
Kept(catalog, k) ==
    LET InGroup(model) == GroupOf(model) = k
    IN  SelectSeq(catalog, InGroup)

\* C8: curate returns the identifiers that pass rules (1)-(3), as the
\* deepseek, kimi, qwen and minimax groups in that order, catalog order kept
\* inside each group; the example catalog gives the example list.
C8_Curate ==
    [][("curate" \notin done /\ "curate" \in done') =>
         /\ available_models' = Kept(all_models, 1) \o Kept(all_models, 2)
                                 \o Kept(all_models, 3) \o Kept(all_models, 4)
         /\ all_models = ExampleCatalog =>
                available_models' =
                    <<DeepSeekV31, MoonshotKimiK2, Qwen3_8B, MiniMaxM1>>]_vars

\* The example catalog has been curated.
C8_Witness ==
    /\ "curate" \in done
    /\ all_models = ExampleCatalog
    /\ Len(available_models) = 4

\* C9: curate applied to a curated list returns that list.
C9_Idempotent == "recurate" \in done => refiltered = available_models

\* A catalog that curate reordered, with two identifiers in one group, has
\* been curated twice.
C9_Witness ==
    /\ "recurate" \in done
    /\ all_models = <<Qwen3_8B, DeepSeekAiR1, DeepSeekV31>>
    /\ available_models = <<DeepSeekAiR1, DeepSeekV31, Qwen3_8B>>

\* Some entry of models contains sub.
Has(sub, models) == \E i \in DOMAIN models : Contains(sub, models[i])

\* The first entry of models that contains sub.
FirstWith(sub, models) ==
    models[CHOOSE i \in DOMAIN models :
               /\ Contains(sub, models[i])
               /\ \A j \in 1..(i - 1) : ~Contains(sub, models[j])]

\* The default chosen by preference for an entry containing first, then for
\* one containing second, then the first entry, then the fallback.
PreferredDefault(first, second, models) ==
    IF Has(first, models) THEN FirstWith(first, models)
    ELSE IF Has(second, models) THEN FirstWith(second, models)
    ELSE IF models # << >> THEN models[1]
    ELSE MoonshotKimiK2

\* "Kimi-K2-Instruct"
s_KimiK2Instruct ==
    <<"K","i","m","i","-","K","2","-","I","n","s","t","r","u","c","t">>
\* "DeepSeek-V3.1"
s_DeepSeekV31 == <<"D","e","e","p","S","e","e","k","-","V","3",".","1">>

Rewritten ==
    state = "SwitchingModel" /\ at = 604 /\ msg' = "switched"

\* The lines of a file as it is stored: each ends with its "\n".
stored_lines(data) == split_lines(data)

IsDefaultModelLine(line) == startswith(strip(line), s_DEFAULT_MODEL_eq)

\* C11: the rewrite of SwitchingModel changes only the DEFAULT_MODEL line:
\* the file has as many lines as before and every other line is, at its
\* place, character for character the line it was.
C11_OnlyDefaultModelLine ==
    [][Rewritten =>
          LET before == stored_lines(config_file)
              after == stored_lines(config_file')
          IN  /\ Len(after) = Len(before)
              /\ \A k \in DOMAIN before :
                    IsDefaultModelLine(before[k]) \/ after[k] = before[k]]_vars

\* The selection prompt of switch_model is waiting for a line.
AtSelectionPrompt == state = "SwitchingModel" /\ at = 574

CancelTokens == {s_0, s_back, s_cancel}

\* C12: a cancel token ("0", "back", "cancel") typed at the selection
\* prompt, whatever was typed and rejected before, returns the session to
\* MainMenu and leaves the Config and the in-memory credential as they were.
C12_CancelLeavesAll ==
    [][(AtSelectionPrompt /\ input_line' \in CancelTokens) =>
          /\ state' = "MainMenu"
          /\ UNCHANGED <<config_exists, config_file, api_key>>]_vars

\* "0" cancelled a selection after an input had been rejected, with a Config
\* in place.
C12_Witness ==
    /\ state = "MainMenu"
    /\ msg = "back_to_menu"
    /\ input_line = s_0
    /\ tries > 0
    /\ config_exists

\* The states of the session in which a credential is held.
CredentialStates ==
    {"MainMenu", "Installing", "SwitchingModel", "SettingKey", "ShowingConfig"}

\* C13: in MainMenu, Installing, SwitchingModel, SettingKey and
\* ShowingConfig, in both modes, the in-memory credential is a key for which
\* a validate call returned true.
C13_CredentialValidated ==
    state \in CredentialStates => api_key # << >> /\ api_key \in validated

\* Back in MainMenu after a SettingKey success and then a cancel: the key
\* given at startup was validated, the key held is the one typed since.
C13_Witness ==
    /\ state = "MainMenu"
    /\ msg = "key_kept"
    /\ args_key = sk_first
    /\ sk_first \in validated
    /\ api_key = sk_second

\* C14: when the installer reports failure, the Config is as it was before
\* Installing began (no step of Installing before create_config_file
\* touches it, and create_config_file is not reached); the interactive
\* session is back in MainMenu, still running, and the auto run ends with a
\* non-zero status.
C14_InstallFailure ==
    [][state = "Installing" =>
          /\ at # 650 => UNCHANGED <<config_exists, config_file>>
          /\ msg' = "install_failed" =>
                IF args_auto
                THEN state' = "Exiting" /\ exit_status' > 0
                ELSE state' = "MainMenu" /\ exit_status' = NotExited]_vars

\* The installer failed in an interactive session that had found a Config:
\* the session is at the menu and the Config is the one found.
C14_Witness ==
    /\ state = "MainMenu"
    /\ msg = "install_failed"
    /\ ~args_auto
    /\ config_exists
    /\ config_file = ConfigLF

\* The run ended because the first-time prompt gave no credential (lines
\* 712-717).
AcquisitionFailed == api_key = << >> /\ msg = "cancelled"

\* The run ended because the installation failed in auto mode: auto_install
\* returned False (line 721) or did not return at all.
AutoInstallFailed == args_auto /\ msg \in {"install_failed", "traceback"}

\* C15: the process ends with status 1 exactly when no usable credential
\* could be obtained at startup or, in auto mode, the installation failed;
\* every other end of a run gives status 0.
C15_ExitStatus ==
    state = "Exiting" =>
        /\ exit_status \in {0, 1}
        /\ exit_status = 1 <=> (AcquisitionFailed \/ AutoInstallFailed)

\* C16: Ctrl-C at the prompt of SwitchingModel or SettingKey returns the
\* session to MainMenu, the process still running, with the Config and the
\* in-memory credential as they were; Ctrl-C at the menu prompt ends the
\* session with status 0; Ctrl-C at the first-time credential prompt ends
\* the process.
C16_Interrupts ==
    [][input_line' = CtrlC =>
          /\ state \in {"SwitchingModel", "SettingKey"} =>
                /\ state' = "MainMenu"
                /\ exit_status' = NotExited
                /\ UNCHANGED <<config_exists, config_file, api_key>>
          /\ state = "MainMenu" => state' = "Exiting" /\ exit_status' = 0
          /\ state = "Startup" => state' = "Exiting"]_vars

\* Ctrl-C at the credential prompt of SettingKey: the session is back at the
\* menu with the credential it had.
C16_Witness ==
    /\ state = "MainMenu"
    /\ input_line = CtrlC
    /\ msg = "key_kept"
    /\ api_key = sk_first
    /\ exit_status = NotExited

\* C17: no step of SettingKey changes the Config; when the credential
\* changes it becomes the key just typed, which validate has accepted; on a
\* cancel token or Ctrl-C the credential is the one held before.
C17_SettingKeyFrame ==
    [][state = "SettingKey" =>
          /\ UNCHANGED <<config_exists, config_file>>
          /\ api_key' # api_key =>
                api_key' = strip(input_line') /\ api_key' \in validated'
          /\ input_line' \in {typed_cancel, typed_Cancel, CtrlC} =>
                api_key' = api_key /\ state' = "MainMenu"]_vars

\* SettingKey replaced the credential found in the Config; the Config still
\* holds the old one.
C17_Witness ==
    /\ state = "MainMenu"
    /\ msg = "key_updated"
    /\ api_key = sk_second
    /\ config_exists
    /\ config_file = ConfigLF

\* C18: once a credential has been obtained no error ends the process: an
\* interactive session that holds a credential ends only because the user
\* chose to exit or interrupted it, with status 0.
C18_NoFatalError ==
    (state = "Exiting" /\ ~args_auto /\ api_key # << >>) =>
        exit_status = 0 /\ msg \in {"bye", "interrupted"}

\* C19: a catalog with nothing to offer (empty, or empty once curated) does
\* not fail Installing: the hardcoded model is the default, the flow goes on
\* to the installer and, when that succeeds, the Config is written with the
\* hardcoded model; in SwitchingModel the same catalog ends the operation:
\* the session is back in MainMenu, no selection prompt was shown and the
\* Config is as it was.
C19_EmptyCatalogAsymmetry ==
    [][msg' # "interrupted" =>
          /\ (state = "Installing" /\ at = 634 /\ available_models' = << >>) =>
                /\ state' = "Installing" /\ at' = 645
                /\ default_model' = MoonshotKimiK2
          /\ (state = "Installing" /\ at = 650 /\ available_models = << >>
                /\ msg' = "install_complete") =>
                /\ config_exists'
                /\ shown_model(config_file') = MoonshotKimiK2
          /\ (state = "SwitchingModel" /\ at = 549
                /\ available_models' = << >>) =>
                /\ state' = "MainMenu"
                /\ msg' \in {"no_catalog", "no_supported_model"}
                /\ UNCHANGED <<config_exists, config_file>>]_vars

\* Installing went on with nothing in the catalog: the installer has
\* succeeded and the Config is about to be written with the hardcoded model.
C19_Witness ==
    /\ state = "Installing"
    /\ at = 650
    /\ all_models = << >>
    /\ default_model = MoonshotKimiK2
    /\ msg = "installed"

ListedIn(list, m) == \E i \in DOMAIN list : list[i] = m

Installed ==
    state = "Installing" /\ at = 650 /\ msg' = "install_complete"

\* The credential a later run reads from the file (lines 235-240).
persisted_key(data) == key_in_lines(readlines(data))

\* C22: a successful Installing leaves a Config whose OPENAI_API_KEY is the
\* credential held in memory at that moment and whose DEFAULT_MODEL is the
\* default chosen in that operation, which is an entry of the curated list
\* or the hardcoded model; the credential in memory is not changed by it.
C22_InstalledConfig ==
    [][Installed =>
          /\ config_exists'
          /\ api_key' = api_key
          /\ persisted_key(config_file') = api_key
          /\ shown_model(config_file') = default_model
          /\ \/ ListedIn(available_models, default_model)
             \/ default_model = MoonshotKimiK2]_vars

\* The run began with the key of --key, SettingKey replaced it and
\* Installing persisted the replacement; SettingKey has since brought the
\* first key back, so that the persisted credential and the one in memory
\* differ.
C22_Witness ==
    /\ state = "MainMenu"
    /\ msg = "key_updated"
    /\ args_key = sk_first
    /\ api_key = sk_first
    /\ config_exists
    /\ persisted_key(config_file) = sk_second

=============================================================================
